---- MODULE Spec2Model ----
(***************************************************************************)
(* A model of adaf_inference.py: the two vectorizers                       *)
(* (object_detection_vectors, semantic_segmentation_vectors) and the       *)
(* orchestrator main_routine.                                              *)
(*                                                                         *)
(* Geometry.  The plane is a grid of unit cells; a polygon is the set of   *)
(* cells it covers.  Cell <<i, j>> is the square [i, i+1] x [j, j+1].      *)
(* Coordinates, origins and resolutions are fixed-point numbers with two   *)
(* units per map unit (res = 1 is 0.5 map units per pixel), so every value *)
(* the code computes for the modelled inputs is an integer.                *)
(***************************************************************************)
EXTENDS Integers, Sequences, FiniteSets, TLC

VARIABLES
    ml_type,                \* which vectorizer runs: inp.ml_type
    predictions_dirs_dict,  \* sequence of [label, files]: the dict, in insertion order
    threshold,              \* probability threshold, in tenths
    keep_ml_paths,          \* keep_ml_paths argument
    pc,                     \* position in the vectorizer
    li,                     \* index of the dict item the outer loop is at
    fi,                     \* index of the file the inner loop is at
    appended_data,          \* rows appended so far (the frames, concatenated)
    crs,                    \* local variable crs
    gpkg,                   \* the vector file on disk
    ret,                    \* return value, or the exception that left the function
    stage,                  \* position of main_routine
    inp,                    \* the inputs of main_routine other than ml_type
    fs,                     \* the artifacts of the run that exist on disk
    vrt_path,               \* local variable vrt_path of main_routine
    vector_path,            \* local variable vector_path of main_routine
    mono                    \* two extractions of one input at two thresholds

vvars == <<ml_type, predictions_dirs_dict, threshold, keep_ml_paths, pc, li, fi,
           appended_data, crs, gpkg, ret>>
mvars == <<stage, inp, fs, vrt_path, vector_path>>
vars == <<vvars, mvars, mono>>

-----------------------------------------------------------------------------
(* Bounds of the model *)

\* lines (detection) or rasters (segmentation) in the whole input of one call
MaxRecs == 2
\* prediction files in the whole input of one call
MaxFiles == 2
\* the same two, for the predictions made within a run of main_routine
MainRecs == 1
MainFiles == 2
\* prediction files compared at two thresholds
MonoFiles == 2

-----------------------------------------------------------------------------
(* Values *)

None == "None"
\* No vector file on disk.
NoFile == [exists |-> FALSE, crs |-> None, features |-> {}]
\* The value pandas fills a missing field with.  It stands apart from every
\* coordinate of the model.
NaN == -1000
Labels == <<"barrow", "enclosure">>
OD == "object detection"
SS == "segmentation"

Min(a, b) == IF a <= b THEN a ELSE b
Max(a, b) == IF a >= b THEN a ELSE b
Range(s) == {s[k] : k \in DOMAIN s}

-----------------------------------------------------------------------------
(* Geometry: shapely and the geopandas dissolve / explode *)

\* The polygon of a row whose coordinates are not numbers: it covers no cell
\* of the plane.  It is kept apart from every real cell.
NaNCell == <<-9, -9>>
NaNGeom == {NaNCell}

\* shapely.geometry.box(minx, miny, maxx, maxy): the rectangle with these
\* corners, whichever of the two is the larger.
box(minx, miny, maxx, maxy) ==
    IF NaN \in {minx, miny, maxx, maxy} THEN NaNGeom
    ELSE {<<i, j>> : i \in Min(minx, maxx) .. (Max(minx, maxx) - 1),
                     j \in Min(miny, maxy) .. (Max(miny, maxy) - 1)}

\* Two cells share an edge.  Polygons that only meet in a corner point are
\* not joined into one polygon by a union.
Adjacent(c, d) ==
    \/ c[1] = d[1] /\ (c[2] - d[2] = 1 \/ d[2] - c[2] = 1)
    \/ c[2] = d[2] /\ (c[1] - d[1] = 1 \/ d[1] - c[1] = 1)

RECURSIVE Grow(_, _)
Grow(S, R) ==
    LET N == {c \in S \ R : \E d \in R : Adjacent(c, d)}
    IN  IF N = {} THEN R ELSE Grow(S, R \cup N)

\* The single polygons of a (multi-part) geometry.
RECURSIVE Parts(_)
Parts(S) ==
    IF S = {} THEN {}
    ELSE LET c == CHOOSE x \in S : TRUE
             P == Grow(S, {c})
         IN  {P} \cup Parts(S \ P)

unary_union(geoms) == UNION geoms

\* dissolve without the grouping: every label gets the union of all rows.
dissolve_all(rows) ==
    {[rows[CHOOSE k \in DOMAIN rows : rows[k].label = lab] EXCEPT
        !.geometry = unary_union({rows[k].geometry : k \in DOMAIN rows})]
        : lab \in {rows[k].label : k \in DOMAIN rows}}

\* First row of a frame with the given label (aggfunc="first").
FirstOf(rows, lab) ==
    rows[CHOOSE k \in DOMAIN rows :
            /\ rows[k].label = lab
            /\ \A m \in DOMAIN rows : rows[m].label = lab => k <= m]

\* GeoDataFrame.dissolve(by="label"): one row per label, its geometry the
\* union of the label's geometries, its other columns those of the label's
\* first row.
dissolve(rows) ==
    {[FirstOf(rows, lab) EXCEPT
        !.geometry = unary_union({rows[k].geometry :
                                    k \in {m \in DOMAIN rows : rows[m].label = lab}})]
        : lab \in {rows[k].label : k \in DOMAIN rows}}

\* explode left out: multi-part rows stay as they are.
explode_none(frame) == frame

\* GeoDataFrame.explode: one row per single polygon of every row.
explode(frame) ==
    UNION {{[r EXCEPT !.geometry = p] : p \in Parts(r.geometry)} : r \in frame}

-----------------------------------------------------------------------------
(* object_detection_vectors *)

Columns == 10

\* One line of a prediction file.  nf is the number of fields on the line;
\* a line of nf < 10 fields lacks its last fields.
Line(x0, y0, x1, y1, label, score, epsg, res, x_min, y_max, nf) ==
    [x0 |-> x0, y0 |-> y0, x1 |-> x1, y1 |-> y1, label |-> label,
     score |-> score, epsg |-> epsg,
     res |-> res, x_min |-> x_min, y_max |-> y_max, nf |-> nf]

\* pd.read_csv(file_path, sep=" ", header=None) followed by the assignment of
\* the ten column names.  The parser takes the number of columns from the
\* first line; a later line with more fields is a ParserError, a later line
\* with fewer fields is padded with NaN.  Naming the columns fails unless
\* there are exactly ten.
read_csv(lines) ==
    IF \E k \in DOMAIN lines : lines[k].nf > lines[1].nf
      THEN [exc |-> "ParserError", data |-> <<>>]
    ELSE IF lines[1].nf # Columns
      THEN [exc |-> "ValueError", data |-> <<>>]
    ELSE [exc |-> None,
          data |-> [k \in DOMAIN lines |->
                      IF lines[k].nf < Columns
                        THEN [lines[k] EXCEPT !.y_max = NaN]
                        ELSE lines[k]]]

\* The y transform without the vertical flip.
world_y_noflip(d, y) == IF d.y_max = NaN THEN NaN ELSE d.y_max + (d.res * y)

\* Pixel box to world box, lines 67-70.
world_x(d, x) == d.x_min + (d.res * x)
world_y(d, y) == IF d.y_max = NaN THEN NaN ELSE d.y_max - (d.res * y)

\* The row made of one record, lines 67-73 and 78-79.
od_row(d, path, keep) ==
    [label |-> d.label,
     score |-> d.score,
     geometry |-> box(world_x(d, d.x0), world_y(d, d.y0),
                      world_x(d, d.x1), world_y(d, d.y1)),
     prediction_path |-> IF keep THEN path ELSE None,
     crs |-> None]

\* The filter with the threshold itself passing.
od_filter_ge(rows, thr) == SelectSeq(rows, LAMBDA r : r.score >= thr)

\* Filter by probability threshold, line 76.
od_filter(rows, thr) == SelectSeq(rows, LAMBDA r : r.score > thr)

\* The rows one parsed file contributes, lines 67-79.
od_rows(data, path, thr, keep) ==
    od_filter([k \in DOMAIN data |-> od_row(data[k], path, keep)], thr)

-----------------------------------------------------------------------------
(* semantic_segmentation_vectors *)

\* A probability raster: its CRS, its affine transform (the world position of
\* the upper left corner; rows run downwards) and one probability, in
\* tenths, per pixel <<col, row>>.
Raster(rcrs, ox, oy, prob) == [crs |-> rcrs, ox |-> ox, oy |-> oy, prob |-> prob]

\* The world cell of a pixel under the raster's transform.
pixel_cell(src, p) == <<src.ox + p[1], src.oy - 1 - p[2]>>

\* The mask turned around: 1 where the probability stays below the threshold.
prediction_below(src, thr) ==
    [p \in DOMAIN src.prob |-> IF src.prob[p] < thr THEN 1 ELSE 0]

\* Lines 138-142: the mask, 1 where the probability reaches the threshold.
prediction(src, thr) ==
    [p \in DOMAIN src.prob |-> IF src.prob[p] >= thr THEN 1 ELSE 0]

\* rasterio.features.shapes: one polygon per connected region of equal value.
shapes(pred, src) ==
    UNION {{<<P, v>> : P \in Parts({pixel_cell(src, p) :
                                      p \in {q \in DOMAIN pred : pred[q] = v}})}
             : v \in {0, 1}}

\* Lines 148-151: the polygons of value 1.
poly(src, thr) == {o[1] : o \in {q \in shapes(prediction(src, thr), src) : q[2] = 1}}

RECURSIVE SetToSeq(_)
SetToSeq(S) ==
    IF S = {} THEN <<>>
    ELSE LET x == CHOOSE y \in S : TRUE IN <<x>> \o SetToSeq(S \ {x})

\* Lines 154-160: the frame one raster contributes.
ss_rows(src, lab, path, thr, keep) ==
    LET parts == Parts(unary_union(poly(src, thr)))
    IN  SetToSeq({[label |-> lab,
                   score |-> None,
                   geometry |-> g,
                   prediction_path |-> IF keep THEN path ELSE None,
                   crs |-> src.crs] : g \in parts})

-----------------------------------------------------------------------------
(* The steps of a vectorizer *)

CurItem == predictions_dirs_dict[li]
CurFile == CurItem.files[fi]
\* The last path parts of a prediction file: its directory and its name.
FilePath(l, f) == <<predictions_dirs_dict[l].label, f>>

OutName == IF ml_type = OD THEN "object_detection.gpkg" ELSE "semantic_segmentation.gpkg"

\* Lines 43-48 and 118-122: the output path is taken from the first value of
\* the dict, which an empty dict does not have.
Start ==
    /\ pc = "start"
    /\ IF predictions_dirs_dict = <<>>
         THEN /\ pc' = "raised"
              /\ ret' = "IndexError"
         ELSE /\ pc' = "loop"
              /\ ret' = ret
    /\ li' = 1
    /\ fi' = 1
    /\ appended_data' = <<>>
    /\ crs' = None
    /\ UNCHANGED <<ml_type, predictions_dirs_dict, threshold, keep_ml_paths, gpkg>>
    /\ UNCHANGED <<mvars, mono>>

\* Lines 49-52 and 123-125: the files of one directory are done, on to the
\* next item of the dict.
NextLabel ==
    /\ pc = "loop"
    /\ li <= Len(predictions_dirs_dict)
    /\ fi > Len(CurItem.files)
    /\ li' = li + 1
    /\ fi' = 1
    /\ UNCHANGED <<ml_type, predictions_dirs_dict, threshold, keep_ml_paths, pc,
                   appended_data, crs, gpkg, ret>>
    /\ UNCHANGED <<mvars, mono>>

\* Lines 53-82: one prediction file of the object detection.
OD_ReadFile ==
    /\ pc = "loop"
    /\ ml_type = OD
    /\ li <= Len(predictions_dirs_dict)
    /\ fi <= Len(CurItem.files)
    /\ LET parsed == read_csv(CurFile)
           rows == od_rows(parsed.data, FilePath(li, fi), threshold, keep_ml_paths)
       IN  IF CurFile = <<>>
             THEN UNCHANGED <<pc, ret, crs, appended_data>>
           ELSE IF parsed.exc # None
             THEN /\ pc' = "raised"
                  /\ ret' = parsed.exc
                  /\ UNCHANGED <<crs, appended_data>>
           ELSE /\ crs' = IF crs = None THEN parsed.data[1].epsg ELSE crs
                /\ appended_data' = appended_data \o rows
                /\ UNCHANGED <<pc, ret>>
    /\ fi' = fi + 1
    /\ UNCHANGED <<ml_type, predictions_dirs_dict, threshold, keep_ml_paths, li, gpkg>>
    /\ UNCHANGED <<mvars, mono>>

\* GeoDataFrame.to_file: the frame and its CRS on disk.
to_file(c, frame) == [exists |-> TRUE, crs |-> c, features |-> frame]

\* The union of a polygon whose coordinates are NaN is not defined by GEOS:
\* it raises or it carries the polygon along.
UnionOutcomes(rows) ==
    IF \E k \in DOMAIN rows : rows[k].geometry = NaNGeom
      THEN {"write", "raise"} ELSE {"write"}

\* Lines 84-96.
OD_Finish ==
    /\ pc = "loop"
    /\ ml_type = OD
    /\ li > Len(predictions_dirs_dict)
    /\ \E outcome \in UnionOutcomes(appended_data) :
         IF appended_data = <<>>
           THEN /\ pc' = "returned"
                /\ ret' = ""
                /\ gpkg' = gpkg
         ELSE IF outcome = "raise"
           THEN /\ pc' = "raised"
                /\ ret' = "GEOSException"
                /\ gpkg' = gpkg
         ELSE /\ pc' = "returned"
              /\ ret' = OutName
              /\ gpkg' = to_file(crs, explode(dissolve(appended_data)))
    /\ UNCHANGED <<ml_type, predictions_dirs_dict, threshold, keep_ml_paths, li, fi,
                   appended_data, crs>>
    /\ UNCHANGED <<mvars, mono>>

\* Lines 129-160: one probability raster of the segmentation.
SS_ReadFile ==
    /\ pc = "loop"
    /\ ml_type = SS
    /\ li <= Len(predictions_dirs_dict)
    /\ fi <= Len(CurItem.files)
    /\ crs' = CurFile.crs
    /\ appended_data' = appended_data \o
           ss_rows(CurFile, CurItem.label, FilePath(li, fi), threshold, keep_ml_paths)
    /\ fi' = fi + 1
    /\ UNCHANGED <<ml_type, predictions_dirs_dict, threshold, keep_ml_paths, pc, li,
                   gpkg, ret>>
    /\ UNCHANGED <<mvars, mono>>

\* Frames of different CRS, or a crs argument that differs from the CRS of
\* the frames: geopandas raises a ValueError or, in older versions, lets the
\* crs argument stand.
CrsOutcomes(rows, c) ==
    IF \E k \in DOMAIN rows : rows[k].crs # c
      THEN {"write", "raise"} ELSE {"write"}

\* Lines 162-174.
SS_Finish ==
    /\ pc = "loop"
    /\ ml_type = SS
    /\ li > Len(predictions_dirs_dict)
    /\ \E outcome \in CrsOutcomes(appended_data, crs) :
         IF appended_data = <<>>
           THEN /\ pc' = "returned"
                /\ ret' = ""
                /\ gpkg' = gpkg
         ELSE IF outcome = "raise"
           THEN /\ pc' = "raised"
                /\ ret' = "ValueError"
                /\ gpkg' = gpkg
         ELSE /\ pc' = "returned"
              /\ ret' = OutName
              /\ gpkg' = to_file(crs, explode(dissolve(appended_data)))
    /\ UNCHANGED <<ml_type, predictions_dirs_dict, threshold, keep_ml_paths, li, fi,
                   appended_data, crs>>
    /\ UNCHANGED <<mvars, mono>>

-----------------------------------------------------------------------------
(* The inputs of a call *)

\* Prediction lines of one label.  Two tiles, at x_min = 0 and x_min = 1,
\* with y_max = 2 and res = 1; the same pixel box in both tiles gives two
\* world boxes that overlap by half.
Lines(lab) ==
    {Line(0, 0, 2, 1, lab, 9, "EPSG:3794", 1, xm, 2, 10) : xm \in {0, 1}} \cup
    {Line(2, 1, 3, 2, lab, 9, "EPSG:3794", 1, 0, 2, 10),
     Line(0, 0, 2, 1, lab, 5, "EPSG:3794", 1, 0, 2, 10),
     Line(0, 0, 2, 1, lab, 9, "EPSG:4326", 1, 1, 2, 10),
     Line(2, 1, 3, 2, lab, 9, "EPSG:3794", 1, 0, 2, 9),
     Line(2, 1, 3, 2, lab, 9, "EPSG:3794", 1, 0, 2, 11)}

Cols == 0 .. 1
Rows == 0 .. 0
Pixels == Cols \X Rows
Probs == {3, 5, 9}

\* Probability rasters: two tiles whose footprints overlap in one column.
Rasters ==
    {Raster("EPSG:3794", ox, 2, prob) : ox \in {0, 1}, prob \in [Pixels -> Probs]} \cup
    {Raster("EPSG:4326", 1, 2, [p \in Pixels |-> 9])}

\* The default threshold of both vectorizers, 0.5, in tenths.
Default == 5

\* Files of a given number of lines (a raster counts as one).
FilesOfSize(mode, lab, s) ==
    IF mode = OD THEN [1 .. s -> Lines(lab)]
    ELSE IF s = 1 THEN Rasters ELSE {}

\* Directories of n files with k lines in all.
RECURSIVE DirsOf(_, _, _, _)
DirsOf(mode, lab, n, k) ==
    IF n = 0 THEN (IF k = 0 THEN {<<>>} ELSE {})
    ELSE UNION {{<<f>> \o d : f \in FilesOfSize(mode, lab, s),
                              d \in DirsOf(mode, lab, n - 1, k - s)} : s \in 0 .. k}

\* The lists of labels a run can ask for.
LabelLists == {<<>>, <<Labels[1]>>, <<Labels[2]>>, Labels}

\* The dicts with one directory for each label of labs, of at most k lines
\* in at most m files in all.
RECURSIVE DictsFor(_, _, _, _)
DictsFor(mode, labs, k, m) ==
    IF labs = <<>> THEN {<<>>}
    ELSE UNION {{<<[label |-> Head(labs), files |-> d]>> \o r :
                    d \in DirsOf(mode, Head(labs), x[1], x[2]),
                    r \in DictsFor(mode, Tail(labs), k - x[2], m - x[1])}
                 : x \in (0 .. m) \X (0 .. k)}

Dicts(mode, k, m) == UNION {DictsFor(mode, labs, k, m) : labs \in LabelLists}

Init ==
    /\ ml_type \in {OD, SS}
    /\ predictions_dirs_dict \in Dicts(ml_type, MaxRecs, MaxFiles)
    /\ threshold = Default
    /\ keep_ml_paths \in BOOLEAN
    /\ pc = "start"
    /\ li = 1
    /\ fi = 1
    /\ appended_data = <<>>
    /\ crs = None
    /\ gpkg = NoFile
    /\ ret = None
    /\ stage = "CALL"
    /\ inp = None
    /\ fs = None
    /\ vrt_path = None
    /\ vector_path = None
    /\ mono = None

Next ==
    \/ Start
    \/ NextLabel
    \/ OD_ReadFile
    \/ OD_Finish
    \/ SS_ReadFile
    \/ SS_Finish

Spec == Init /\ [][Next]_vars

-----------------------------------------------------------------------------
(* main_routine *)

NoArtifacts ==
    [save_dir |-> FALSE, vis_dir |-> FALSE, vrt |-> FALSE,
     pred_dirs |-> {}, pred_vrts |-> {}]

\* run_visualisations and the tiled processing behind it: a directory of
\* visualization tiles and a VRT over them.
run_visualisations(f) == [f EXCEPT !.vis_dir = TRUE, !.vrt = TRUE]

\* make_predictions_on_patches_*: one directory of predictions for a label,
\* beside the visualization directory.
make_predictions(f, labs) == [f EXCEPT !.pred_dirs = @ \cup Range(labs)]

\* shutil.rmtree of every directory of the dict.
rmtree_predictions(f, dict) ==
    [f EXCEPT !.pred_dirs = @ \ {dict[k].label : k \in DOMAIN dict}]

\* Lines 355-366: the run directory and the log file.
M_Init ==
    /\ stage = "INIT"
    /\ stage' = "VISUALIZE"
    /\ fs' = [fs EXCEPT !.save_dir = TRUE]
    /\ UNCHANGED <<inp, vrt_path, vector_path, vvars, mono>>

\* Lines 368-407: copy the given visualization, or compute it.
M_Visualize ==
    /\ stage = "VISUALIZE"
    /\ stage' = "INFER"
    /\ IF inp.vis_exist_ok
         THEN /\ fs' = [fs EXCEPT !.vis_dir = TRUE]
              /\ vrt_path' = None
         ELSE /\ fs' = run_visualisations(fs)
              /\ vrt_path' = "vrt"
    /\ UNCHANGED <<inp, vector_path, vvars, mono>>

\* Lines 419-423, 433-435 and 452-453: the dispatch on ml_type and the
\* inference, whose predictions are whatever the models give; then the call
\* of the vectorizer, with the default threshold.
M_Infer ==
    /\ stage = "INFER"
    /\ IF ml_type \in {OD, SS}
         THEN /\ stage' = "VECTORIZE"
              /\ fs' = make_predictions(fs, inp.labels)
              /\ predictions_dirs_dict' \in DictsFor(ml_type, inp.labels, MainRecs, MainFiles)
              /\ keep_ml_paths' = inp.save_ml_output
              /\ pc' = "start"
              /\ ret' = ret
         ELSE /\ stage' = "ABORTED"
              /\ ret' = "Exception"
              /\ UNCHANGED <<fs, predictions_dirs_dict, keep_ml_paths, pc>>
    /\ UNCHANGED <<ml_type, threshold, li, fi, appended_data, crs, gpkg>>
    /\ UNCHANGED <<inp, vrt_path, vector_path, mono>>

\* An exception of the vectorizer is not caught.
M_Raise ==
    /\ stage = "VECTORIZE"
    /\ pc = "raised"
    /\ stage' = "ABORTED"
    /\ UNCHANGED <<inp, fs, vrt_path, vector_path, vvars, mono>>

\* The removal of the prediction directories with the flag turned around.
M_Predictions_kept ==
    /\ stage = "VECTORIZE"
    /\ pc = "returned"
    /\ stage' = "CLEANUP"
    /\ vector_path' = ret
    /\ fs' = IF inp.save_ml_output
               THEN rmtree_predictions(fs, predictions_dirs_dict)
             ELSE fs
    /\ UNCHANGED <<inp, vrt_path, vvars, mono>>

\* Lines 425-431 and 437-450: the vector path, then the prediction
\* directories are removed unless they are to be kept; kept probability
\* masks get a VRT.
M_Predictions ==
    /\ stage = "VECTORIZE"
    /\ pc = "returned"
    /\ stage' = "CLEANUP"
    /\ vector_path' = ret
    /\ fs' = IF ~inp.save_ml_output
               THEN rmtree_predictions(fs, predictions_dirs_dict)
             ELSE IF ml_type = SS
               THEN [fs EXCEPT !.pred_vrts =
                        {predictions_dirs_dict[k].label : k \in DOMAIN predictions_dirs_dict}]
             ELSE fs
    /\ UNCHANGED <<inp, vrt_path, vvars, mono>>

\* Lines 455-463: the visualizations are removed unless they are to be kept.
M_RemoveVis ==
    /\ stage = "CLEANUP"
    /\ stage' = "DONE"
    /\ fs' = IF inp.save_vis THEN fs
             ELSE [fs EXCEPT !.vis_dir = FALSE,
                             !.vrt = IF vrt_path # None THEN FALSE ELSE @]
    /\ UNCHANGED <<inp, vrt_path, vector_path, vvars, mono>>

MlTypes == {OD, SS, "classification"}

InitMain ==
    /\ ml_type \in MlTypes
    /\ inp \in [labels : LabelLists, vis_exist_ok : BOOLEAN,
                 save_vis : BOOLEAN, save_ml_output : BOOLEAN]
    /\ stage = "INIT"
    /\ fs = NoArtifacts
    /\ vrt_path = None
    /\ vector_path = None
    /\ predictions_dirs_dict = <<>>
    /\ threshold = Default
    /\ keep_ml_paths = FALSE
    /\ pc = "idle"
    /\ li = 1
    /\ fi = 1
    /\ appended_data = <<>>
    /\ crs = None
    /\ gpkg = NoFile
    /\ ret = None
    /\ mono = None

NextMain ==
    \/ M_Init
    \/ M_Visualize
    \/ M_Infer
    \/ Start
    \/ NextLabel
    \/ OD_ReadFile
    \/ OD_Finish
    \/ SS_ReadFile
    \/ SS_Finish
    \/ M_Raise
    \/ M_Predictions
    \/ M_RemoveVis

SpecMain == InitMain /\ [][NextMain]_vars

-----------------------------------------------------------------------------
(* The geometry records of one input at two thresholds *)

\* The rows a vectorizer takes from one prediction file at a threshold.
file_rows(mode, file, t) ==
    IF mode = SS THEN ss_rows(file, Labels[1], None, t, FALSE)
    ELSE IF file = <<>> \/ read_csv(file).exc # None THEN <<>>
    ELSE od_rows(read_csv(file).data, None, t, FALSE)

RECURSIVE all_rows(_, _, _)
all_rows(mode, files, t) ==
    IF files = <<>> THEN <<>>
    ELSE file_rows(mode, Head(files), t) \o all_rows(mode, Tail(files), t)

Area(rows) == unary_union({rows[k].geometry : k \in DOMAIN rows})

MonoThresholds == {2, 6, 9}
MonoScores == {3, 6, 9}
MonoLines == {Line(0, 0, 2, 1, Labels[1], sc, "EPSG:3794", 1, 0, 2, 10) : sc \in MonoScores}
MonoRasters == {Raster("EPSG:3794", 0, 2, prob) : prob \in [(0 .. 2) \X (0 .. 0) -> MonoScores]}
MonoFileSet(mode) ==
    IF mode = OD THEN UNION {[1 .. n -> MonoLines] : n \in 0 .. MaxRecs}
    ELSE MonoRasters

InitMono ==
    /\ mono \in UNION {[mode : {mode}, files : [1 .. n -> MonoFileSet(mode)],
                        t1 : MonoThresholds, t2 : MonoThresholds,
                        low : {<<>>}, high : {<<>>}, pc : {"low"}]
                       : mode \in {OD, SS}, n \in 0 .. MonoFiles}
    /\ mono.t1 < mono.t2
    /\ ml_type = mono.mode
    /\ predictions_dirs_dict = <<>>
    /\ threshold = Default
    /\ keep_ml_paths = FALSE
    /\ pc = "idle"
    /\ li = 1
    /\ fi = 1
    /\ appended_data = <<>>
    /\ crs = None
    /\ gpkg = NoFile
    /\ ret = None
    /\ stage = "CALL"
    /\ inp = None
    /\ fs = None
    /\ vrt_path = None
    /\ vector_path = None

\* The extraction at the lower threshold.
ExtractLow ==
    /\ mono.pc = "low"
    /\ mono' = [mono EXCEPT !.low = all_rows(mono.mode, mono.files, mono.t1),
                            !.pc = "high"]
    /\ UNCHANGED <<vvars, mvars>>

\* The extraction at the higher threshold.
ExtractHigh ==
    /\ mono.pc = "high"
    /\ mono' = [mono EXCEPT !.high = all_rows(mono.mode, mono.files, mono.t2),
                            !.pc = "done"]
    /\ UNCHANGED <<vvars, mvars>>

NextMono == ExtractLow \/ ExtractHigh

SpecMono == InitMono /\ [][NextMono]_vars

-----------------------------------------------------------------------------
(* One detection record through object_detection_vectors *)

\* Records over wider coordinates, among them the tile at x_min = 100,
\* y_max = 200 with res = 0.5 and the pixel box (10, 10, 20, 20): in the
\* model's units x_min = 200, y_max = 400 and res = 1.
BoxLines ==
    {Line(x0, y0, c[1], c[2], Labels[1], 9, "EPSG:3794", res, o[1], o[2], 10) :
        x0 \in {10, 16}, y0 \in {10, 15}, c \in {<<20, 20>>, <<18, 19>>},
        res \in {1, 2}, o \in {<<200, 400>>, <<0, 40>>}}

InitBox ==
    /\ ml_type = OD
    /\ predictions_dirs_dict \in
          {<<[label |-> Labels[1], files |-> <<<<d>>>>]>> : d \in BoxLines}
    /\ threshold = Default
    /\ keep_ml_paths = FALSE
    /\ pc = "start"
    /\ li = 1
    /\ fi = 1
    /\ appended_data = <<>>
    /\ crs = None
    /\ gpkg = NoFile
    /\ ret = None
    /\ stage = "CALL"
    /\ inp = None
    /\ fs = None
    /\ vrt_path = None
    /\ vector_path = None
    /\ mono = None

NextBox ==
    \/ Start
    \/ NextLabel
    \/ OD_ReadFile
    \/ OD_Finish

SpecBox == InitBox /\ [][NextBox]_vars

-----------------------------------------------------------------------------
(* What the input of a call holds, read off the prediction files themselves *)

\* Positions <<l, f>> of the prediction files of the input.
FilePositions ==
    {x \in (DOMAIN predictions_dirs_dict) \X (1 .. MaxFiles + 1) :
        x[2] \in DOMAIN predictions_dirs_dict[x[1]].files}
FileAt(x) == predictions_dirs_dict[x[1]].files[x[2]]

\* The files the loops have been through.
FilesRead ==
    IF pc = "start" THEN {}
    ELSE {x \in FilePositions : x[1] < li \/ (x[1] = li /\ x[2] < fi)}

\* The detection records of the input, each with the file it is in.
Records == {<<x, k>> : x \in FilePositions, k \in 1 .. MaxRecs + 1}
InputRecords == IF ml_type = OD THEN {r \in Records : r[2] \in DOMAIN FileAt(r[1])} ELSE {}
RecordAt(r) == FileAt(r[1])[r[2]]

\* The world rectangle of a detection record: x from x_min + res*x0 to
\* x_min + res*x1, y from y_max - res*y1 to y_max - res*y0.
WorldRect(d) ==
    {c \in ((d.x_min + d.res * d.x0) .. (d.x_min + d.res * d.x1 - 1)) \X
            ((d.y_max - d.res * d.y1) .. (d.y_max - d.res * d.y0 - 1)) : TRUE}

\* The geometries of a label above the threshold: the rectangles of the
\* records whose score exceeds it, the pixels whose probability reaches it.
AboveThreshold(lab) ==
    IF ml_type = OD
      THEN {IF RecordAt(r).nf = Columns THEN WorldRect(RecordAt(r)) ELSE NaNGeom :
              r \in {q \in InputRecords : /\ RecordAt(q).label = lab
                                          /\ RecordAt(q).score > threshold}}
      ELSE UNION {{{pixel_cell(FileAt(x), p)} :
                      p \in {q \in Pixels : FileAt(x).prob[q] >= threshold}} :
                    x \in {y \in FilePositions : predictions_dirs_dict[y[1]].label = lab}}

LabelSet == Range(Labels)
Survivors == UNION {AboveThreshold(lab) : lab \in LabelSet}

Written == pc = "returned" /\ gpkg # NoFile
\* Every prediction file of the input keeps the ten-field layout.
WellFormedInput == \A r \in InputRecords : RecordAt(r).nf = Columns
Features(lab) == {f \in gpkg.features : f.label = lab}

\* A geometry is one polygon: it cannot be split in two sets of cells with no
\* edge between them.
SinglePolygon(g) ==
    /\ g # {}
    /\ \A A \in (SUBSET g) \ {{}, g} :
          \E a \in A, b \in g \ A : Adjacent(a, b)

Overlap(g, h) == g \cap h # {}
Touching(g, h) == \E a \in g, b \in h : Adjacent(a, b)

-----------------------------------------------------------------------------
(* Claims about the vectorizers *)

\* C1: in a written dataset no two features of the same label overlap, and
\* every feature is a single connected polygon, never a multi-part geometry.
C1_DisjointSinglePolygons ==
    Written =>
        /\ \A f, g \in gpkg.features :
              (f # g /\ f.label = g.label) => ~Overlap(f.geometry, g.geometry)
        /\ \A f \in gpkg.features : SinglePolygon(f.geometry)

\* C1 witness: a written dataset with more than one feature of one label.
C1_Witness ==
    /\ Written
    /\ WellFormedInput
    /\ \E lab \in LabelSet : Cardinality(Features(lab)) >= 2

\* C2: every feature covers only area that input geometries of its own label
\* contribute, also where geometries of another label overlap them.
C2_LabelIsolation ==
    Written =>
        \A f \in gpkg.features : f.geometry \subseteq unary_union(AboveThreshold(f.label))

\* C2 witness: two labels whose geometries overlap, both written, and the
\* area of one not all in the area of the other.
C2_Witness ==
    /\ Written
    /\ WellFormedInput
    /\ \E f, g \in gpkg.features :
          /\ f.label # g.label
          /\ Overlap(f.geometry, g.geometry)
          /\ f.geometry # g.geometry

\* C3: for each label the features are exactly the connected components of
\* the union of the label's geometries above the threshold: together they
\* cover that union, each is one polygon, and no two overlap or share an edge.
\* Two overlapping boxes of one label from two tiles give one feature, their
\* union.
C3_ComponentsOfUnion ==
    Written =>
        \A lab \in LabelSet :
            /\ unary_union({f.geometry : f \in Features(lab)})
                  = unary_union(AboveThreshold(lab))
            /\ \A f \in Features(lab) : SinglePolygon(f.geometry)
            /\ \A f, g \in Features(lab) :
                  f # g => /\ ~Overlap(f.geometry, g.geometry)
                           /\ ~Touching(f.geometry, g.geometry)
            /\ \A g, h \in AboveThreshold(lab) :
                  (AboveThreshold(lab) = {g, h} /\ Overlap(g, h)) =>
                      {f.geometry : f \in Features(lab)} = {g \cup h}

\* C3 witness: object detection, one label, two tiles with one detection
\* each, the two boxes overlapping by half, written as one feature.
C3_Witness ==
    /\ Written
    /\ WellFormedInput
    /\ ml_type = OD
    /\ Len(predictions_dirs_dict) = 1
    /\ Len(predictions_dirs_dict[1].files) = 2
    /\ \A f \in 1 .. 2 : Len(predictions_dirs_dict[1].files[f]) = 1
    /\ LET lab == predictions_dirs_dict[1].label
       IN  /\ \E g, h \in AboveThreshold(lab) :
                 /\ g # h
                 /\ AboveThreshold(lab) = {g, h}
                 /\ Cardinality(g \cap h) * 2 = Cardinality(g)
           /\ Cardinality(Features(lab)) = 1

\* C4: if no geometry survives in any label the vectorizer does not raise,
\* returns the empty string and creates no file; a file is written and its
\* path returned only when a geometry survives.
C4_EmptyResultSentinel ==
    /\ (pc \in {"returned", "raised"} /\ Survivors = {}) =>
          (pc = "returned" /\ ret = "" /\ gpkg = NoFile)
    /\ (pc = "returned" /\ (ret # "" \/ gpkg # NoFile)) => Survivors # {}

\* A prediction file with a record that does not have the ten fields.
Malformed(file) == \E k \in DOMAIN file : file[k].nf # Columns

\* C9: in detection mode, once a non-empty prediction file with a record that
\* does not have the ten fields has been read, the vectorizer has raised an
\* error: the batch is aborted and the records contribute no geometry.
C9_SchemaViolationRaises ==
    (ml_type = OD /\ \E x \in FilesRead : Malformed(FileAt(x))) => pc = "raised"

\* The CRS of the records and rasters that contribute a geometry.
ContributorCrs ==
    IF ml_type = OD
      THEN {RecordAt(r).epsg : r \in {q \in InputRecords : RecordAt(q).score > threshold}}
      ELSE {FileAt(x).crs :
              x \in {y \in FilePositions :
                       \E p \in Pixels : FileAt(y).prob[p] >= threshold}}

\* C10: mixed CRS is fatal: a written dataset never tags with its CRS a
\* geometry that came from a record or raster of another CRS.
C10_MixedCrsIsFatal ==
    Written => ContributorCrs = {gpkg.crs}

-----------------------------------------------------------------------------
(* Claims about main_routine *)

\* C5: at DONE every per-label prediction directory exists if and only if
\* save_ml_output is set, and the visualization artifacts the run made (the
\* visualization directory and, where the visualization was computed, its
\* VRT) exist if and only if save_vis is set.
C5_ArtifactRetention ==
    stage = "DONE" =>
        /\ \A lab \in Range(inp.labels) : (lab \in fs.pred_dirs) <=> inp.save_ml_output
        /\ fs.vis_dir <=> inp.save_vis
        /\ vrt_path # None => (fs.vrt <=> inp.save_vis)
        /\ vrt_path = None => ~fs.vrt

\* C5 witness: a finished run, with computed visualization, that removed its
\* prediction directories and its visualization.
C5_Witness ==
    /\ stage = "DONE"
    /\ inp.labels = Labels
    /\ ~inp.save_ml_output
    /\ ~inp.save_vis
    /\ ~inp.vis_exist_ok
    /\ fs.pred_dirs = {}
    /\ ~fs.vis_dir
    /\ ~fs.vrt

\* C6: with an unsupported ml_type the error comes before the visualization
\* or the inference did any work, and the run never gets to VECTORIZE,
\* CLEANUP or DONE and returns no vector path.
C6_UnsupportedModeAbortsFirst ==
    (stage # "CALL" /\ ml_type \notin {OD, SS}) =>
        /\ ~fs.vis_dir
        /\ ~fs.vrt
        /\ fs.pred_dirs = {}
        /\ stage \notin {"VECTORIZE", "CLEANUP", "DONE"}
        /\ vector_path = None

-----------------------------------------------------------------------------
(* Claims about the extraction *)

\* C7, as claimed: in both modes the number of geometry records at the higher
\* threshold is no greater than at the lower one.
C7_CountNeverGrows ==
    mono.pc = "done" => Len(mono.high) <= Len(mono.low)

\* C7, amended: at the higher threshold the geometries cover no area they do
\* not cover at the lower one, and in detection mode they are no more in
\* number; the polygons of a segmentation can be more, a region splitting
\* where the probability dips.
C7_ThresholdMonotone ==
    mono.pc = "done" =>
        /\ Area(mono.high) \subseteq Area(mono.low)
        /\ mono.mode = OD => Len(mono.high) <= Len(mono.low)

\* C7 witness: a segmentation whose polygons at the higher threshold are more
\* than at the lower one, on less area.
C7_Witness ==
    /\ mono.pc = "done"
    /\ mono.mode = SS
    /\ Len(mono.high) > Len(mono.low)
    /\ Area(mono.high) # Area(mono.low)

MinX(g) == CHOOSE v \in {c[1] : c \in g} : \A c \in g : v <= c[1]
MaxX(g) == CHOOSE v \in {c[1] : c \in g} : \A c \in g : v >= c[1]
MinY(g) == CHOOSE v \in {c[2] : c \in g} : \A c \in g : v <= c[2]
MaxY(g) == CHOOSE v \in {c[2] : c \in g} : \A c \in g : v >= c[2]
\* The extent of a rectangle of cells: <<x low, x high, y low, y high>>.
Extent(g) == <<MinX(g), MaxX(g) + 1, MinY(g), MaxY(g) + 1>>
IsRectangle(g) ==
    g = (MinX(g) .. MaxX(g)) \X (MinY(g) .. MaxY(g))

TheRecord == predictions_dirs_dict[1].files[1][1]
\* x_min = 100, y_max = 200, res = 0.5, pixel box (10, 10, 20, 20).
ExampleRecord == Line(10, 10, 20, 20, Labels[1], 9, "EPSG:3794", 1, 200, 400, 10)

\* C8: the world box of a detection record is the rectangle with x from
\* x_min + res*x0 to x_min + res*x1 and y from y_max - res*y1 to
\* y_max - res*y0; the example record gives x from 105 to 110 and y from 190
\* to 195 (210, 220, 380 and 390 in the model's units).
C8_WorldBoxFlipped ==
    \A k \in DOMAIN appended_data :
        LET d == TheRecord
            g == appended_data[k].geometry
        IN  /\ IsRectangle(g)
            /\ Extent(g) = <<d.x_min + d.res * d.x0, d.x_min + d.res * d.x1,
                             d.y_max - d.res * d.y1, d.y_max - d.res * d.y0>>
            /\ d = ExampleRecord => Extent(g) = <<210, 220, 380, 390>>

\* C8 witness: the example record, read and turned into its world box.
C8_Witness ==
    /\ TheRecord = ExampleRecord
    /\ Len(appended_data) = 1
    /\ Extent(appended_data[1].geometry) = <<210, 220, 380, 390>>

====
